---- MODULE Spec2Model ----
(***************************************************************************)
(* Profit-share calculation engine of PSModel                              *)
(* (backend/app/services/calculation_service.py).                          *)
(*                                                                         *)
(* One call of ProfitShareCalculationService.calculate_period is modelled  *)
(* as a run through its numbered steps.  Monetary values are Python        *)
(* decimal.Decimal values; a Decimal is represented by the integer number  *)
(* of 10^-Scale units it denotes, and every arithmetic operation rounds    *)
(* its exact result to Prec significant digits (ROUND_HALF_EVEN), as the   *)
(* decimal context does.  Python's context has 28 digits; the model keeps  *)
(* the same rule with a small Prec and amounts of a few cents, so that     *)
(* quotients such as 0.01/3 are cut after Prec digits exactly as           *)
(* 0.01/3 is cut after 28 digits by the interpreter.                       *)
(*                                                                         *)
(* The second part models PeriodService (services/period_service.py) on    *)
(* top of the two repositories: the tables monthly_periods and             *)
(* holder_allocations, create_period and update_period (each of which      *)
(* calls calculate_period and resumes when it returns or raises), the      *)
(* deletion of a period, and rows written through the repositories         *)
(* without the service.  A second create_period call may pass its lookup   *)
(* while the first call is calculating.                                    *)
(*                                                                         *)
(* The third part models HolderService (services/holder_service.py) on     *)
(* the table holders: create_holder, get_or_create_holder, update_holder   *)
(* with its cascade onto the allocations, and deactivate_holder.  Holder   *)
(* names are strings, stripped as str.strip() strips them.                 *)
(***************************************************************************)
EXTENDS Integers, Sequences, FiniteSets, TLC

VARIABLES
    period_data,            \* PeriodInput argument
    holders,                \* list[HolderInput] argument
    prior_carry_forwards,   \* Optional[dict[str, Decimal]] argument
    pc,                     \* next step of calculate_period
    personal_addback_total,
    adjusted_pool,
    total_shares,
    gross_allocations,
    after_charges,
    carry_forward_in,
    payout_raw,
    payouts,
    carry_forward_out,
    rounded_payouts,
    rounding_delta,
    adjusted_holder_name,
    allocations,            \* list[HolderAllocationResult] built in step 9
    result,                 \* Optional[CalculationResult] handed to the caller
    raised,                 \* exception that left calculate_period, or NoError
    stages,                 \* steps executed so far, in order
    divisors,               \* right operands of the Decimal divisions executed
    monthly_periods,        \* rows of the table monthly_periods
    holder_allocations,     \* rows of holder_allocations, by period_id
    caller,                 \* who called calculate_period and awaits it
    requested,              \* (year, month) a PeriodService call was made for
    service_error,          \* exception that left the PeriodService call
    holder_rows,            \* rows of the table holders, as the session sees it
    holder_call,            \* the HolderService call made last
    holder_error,           \* exception that left that call
    holder_returned,        \* id of the Holder that call returned, 0 for none
    concurrent              \* a second create_period call made while the
                            \* first one is calculating

vars == << period_data, holders, prior_carry_forwards, pc,
           personal_addback_total, adjusted_pool, total_shares,
           gross_allocations, after_charges, carry_forward_in, payout_raw,
           payouts, carry_forward_out, rounded_payouts, rounding_delta,
           adjusted_holder_name, allocations, result, raised, stages,
           divisors, monthly_periods, holder_allocations, caller, requested,
           service_error, holder_rows, holder_call, holder_error,
           holder_returned, concurrent >>

\* the database, and what a PeriodService call leaves besides it
database == << monthly_periods, holder_allocations >>
holder_service == << holder_rows, holder_call, holder_error, holder_returned >>
service == << database, caller, requested, service_error, holder_service,
             concurrent >>

inputs == << period_data, holders, prior_carry_forwards >>

-----------------------------------------------------------------------------
(* Bounds                                                                  *)

Prec == 4               \* significant digits of the decimal context
MaxHolders == 3         \* longest holder list
MaxShares == 2          \* largest share count of one holder
MaxPoolHolders == 2     \* longest holder list of the pool-formula runs
MaxPeriodId == 3        \* largest id the table monthly_periods hands out
MaxWideShares == 3      \* largest share count of the runs without charges
MaxHolderId == 2        \* largest id the table holders hands out

-----------------------------------------------------------------------------
(* decimal.Decimal                                                         *)

RECURSIVE Pow10(_)
Pow10(k) == IF k <= 0 THEN 1 ELSE 10 * Pow10(k - 1)

Scale == Prec + 3               \* fractional digits of one model unit
Unit == Pow10(Scale)            \* Decimal("1")
Cent == Pow10(Scale - 2)        \* Decimal("0.01")
HalfCent == 5 * Pow10(Scale - 3)  \* Decimal("0.005")

Abs(x) == IF x < 0 THEN -x ELSE x
Sign(x) == IF x < 0 THEN -1 ELSE 1

RECURSIVE NumDigits(_)
NumDigits(m) == IF m < 10 THEN 1 ELSE 1 + NumDigits(m \div 10)

\* m / d (m >= 0, d > 0) rounded to an integer, ties to the even neighbour
DivHalfEven(m, d) ==
    LET q == m \div d
        r == m % d
    IN  IF 2 * r > d THEN q + 1
        ELSE IF 2 * r = d /\ q % 2 = 1 THEN q + 1
        ELSE q

\* the context rounding applied to the exact result x of an operation
RoundCtx(x) ==
    LET m == Abs(x)
        D == NumDigits(m)
    IN  IF D <= Prec THEN x
        ELSE Sign(x) * DivHalfEven(m, Pow10(D - Prec)) * Pow10(D - Prec)

DAdd(a, b) == RoundCtx(a + b)
DSub(a, b) == RoundCtx(a - b)
\* a * Decimal(n) for an int n
DMulInt(a, n) == RoundCtx(a * n)
\* a / Decimal(n) for an int n # 0: the quotient to Prec significant digits
DDivInt(a, n) ==
    LET m == Abs(a)
        d == Abs(n)
        D == NumDigits(m \div d)
        k == IF D > Prec THEN D - Prec ELSE 0
    IN  Sign(a) * Sign(n) * DivHalfEven(m, d * Pow10(k)) * Pow10(k)

\* value.quantize(Decimal("0.01"), rounding=ROUND_HALF_UP): ties away from zero
round_half_up(value) ==
    LET m == Abs(value)
        q == m \div Cent
        r == m % Cent
    IN  Sign(value) * (IF 2 * r >= Cent THEN q + 1 ELSE q) * Cent

\* sum(values, Decimal("0")): left to right, each addition in the context
RECURSIVE SumFrom(_, _, _)
SumFrom(acc, s, i) ==
    IF i > Len(s) THEN acc ELSE SumFrom(DAdd(acc, s[i]), s, i + 1)

SumDecimal(s) == SumFrom(0, s, 1)

\* sum(ints): Python int arithmetic is exact
RECURSIVE SumInt(_, _)
SumInt(s, i) == IF i > Len(s) THEN 0 ELSE s[i] + SumInt(s, i + 1)

-----------------------------------------------------------------------------
(* dict[str, Decimal]: a function on its key set; iteration follows the     *)
(* order in which the keys were first inserted                             *)

EmptyDict == [n \in {} |-> 0]
None == {}                      \* Optional[x] is None or Some(x)
Some(x) == {x}
TheValue(opt) == CHOOSE x \in opt : TRUE
NoName == "None"                \* adjusted_holder_name = None

DictGet(d, k, default) == IF k \in DOMAIN d THEN d[k] ELSE default

HolderNames(hs) == { hs[i].holder_name : i \in 1..Len(hs) }

\* index of the last entry named n: the assignment d[n] = ... that survives
LastIndex(hs, n) ==
    CHOOSE i \in 1..Len(hs) :
        /\ hs[i].holder_name = n
        /\ \A j \in (i + 1)..Len(hs) : hs[j].holder_name # n

\* "for holder in holders: d[holder.holder_name] = ..." leaves under the key
\* n the value computed for the last holder named n
LastHolder(hs, n) == hs[LastIndex(hs, n)]

\* keys of such a dict in insertion order (first occurrence of each name)
RECURSIVE KeyOrderFrom(_, _, _)
KeyOrderFrom(hs, i, acc) ==
    IF i > Len(hs) THEN acc
    ELSE IF \E j \in 1..Len(acc) : acc[j] = hs[i].holder_name
         THEN KeyOrderFrom(hs, i + 1, acc)
         ELSE KeyOrderFrom(hs, i + 1, Append(acc, hs[i].holder_name))

KeyOrder(hs) == KeyOrderFrom(hs, 1, << >>)

\* list(d.values()) for a dict whose keys were inserted in holder order
Values(d, hs) == [i \in 1..Len(KeyOrder(hs)) |-> d[KeyOrder(hs)[i]]]

-----------------------------------------------------------------------------
(* ProfitShareCalculationService: the stage methods                        *)

calculate_personal_addback_total(hs) ==
    SumDecimal([i \in 1..Len(hs) |-> hs[i].personal_charges])

\* mutant: bad_debt subtracted instead of added
calculate_adjusted_pool_BadDebtSign(ni, ps, personal_total, draws, uncoll, bad, tax) ==
    DSub(DSub(DSub(DSub(DAdd(DAdd(ni, ps), personal_total), draws), uncoll),
              tax), bad)

calculate_adjusted_pool(ni, ps, personal_total, draws, uncoll, bad, tax) ==
    DAdd(DSub(DSub(DSub(DAdd(DAdd(ni, ps), personal_total), draws), uncoll),
              tax), bad)

calculate_total_shares(hs) == SumInt([i \in 1..Len(hs) |-> hs[i].shares], 1)

\* mutant: the gate tests for a negative share total and never fires
ValidationFails_NeverFires(pool, shares_total) == pool > 0 /\ shares_total < 0

\* the gate of calculate_period: TRUE when the ValueError is raised
ValidationFails(pool, shares_total) == pool > 0 /\ shares_total = 0

\* the branch of calculate_gross_allocations that skips the division
NoShares(shares_total) == shares_total = 0

\* mutant: the holder's own share count is left out of the proportion
GrossAllocation_NoShares(pool, h, shares_total) == DDivInt(pool, shares_total)

GrossAllocation(pool, h, shares_total) ==
    DDivInt(DMulInt(pool, h.shares), shares_total)

calculate_gross_allocations(pool, hs, shares_total) ==
    IF NoShares(shares_total)
    THEN [n \in HolderNames(hs) |-> 0]
    ELSE [n \in HolderNames(hs) |->
            GrossAllocation(pool, LastHolder(hs, n), shares_total)]

apply_personal_charges(gross, hs) ==
    [n \in HolderNames(hs) |->
        DSub(DictGet(gross, n, 0), LastHolder(hs, n).personal_charges)]

\* mutant: the prior map is never read
load_carry_forwards_Ignored(prior) == EmptyDict

\* carry_forward_in = prior_carry_forwards or {}
load_carry_forwards(prior) ==
    IF prior = None THEN EmptyDict ELSE TheValue(prior)

\* mutant: the amount carried in is added to the payout
apply_carry_forwards_Added(after, carry_in, hs) ==
    [n \in HolderNames(hs) |->
        DAdd(DictGet(after, n, 0), DictGet(carry_in, n, 0))]

apply_carry_forwards(after, carry_in, hs) ==
    [n \in HolderNames(hs) |->
        DSub(DictGet(after, n, 0), DictGet(carry_in, n, 0))]

\* mutant: the payout is not floored
ZeroFloorPayout_NoFloor(raw) == raw

\* payouts[name] = Decimal("0") below zero, raw otherwise
ZeroFloorPayout(raw) == IF raw < 0 THEN 0 ELSE raw

\* mutant: the deficit is carried with its sign instead of its magnitude
ZeroFloorCarry_Signed(raw) == IF raw < 0 THEN raw ELSE 0

\* carry_forward_out[name] = abs(raw) below zero, Decimal("0") otherwise
ZeroFloorCarry(raw) == IF raw < 0 THEN Abs(raw) ELSE 0

\* apply_zero_floor returns the pair (payouts, carry_forward_out)
apply_zero_floor_payouts(raw, hs) ==
    [n \in HolderNames(hs) |-> ZeroFloorPayout(DictGet(raw, n, 0))]

apply_zero_floor_carry(raw, hs) ==
    [n \in HolderNames(hs) |-> ZeroFloorCarry(DictGet(raw, n, 0))]

\* Decimal("-999999999"), the start value of max_payout (whole currency units)
MaxPayoutStart == -999999999

\* holder_payout > max_payout, with max_payout still at its start value
ExceedsStart(holder_payout) == ((holder_payout - 1) \div Unit) >= MaxPayoutStart

\* mutant: >= lets a later holder with an equal payout take over
IsLarger_OrEqual(holder_payout, max_payout) == holder_payout >= max_payout

\* holder_payout > max_payout
IsLarger(holder_payout, max_payout) == holder_payout > max_payout

\* the loop "for holder in holders" of round_and_reconcile from index i on;
\* best is the index of the holder whose name is held in adjusted_holder_name
\* (0 while it is None) and max_payout the running maximum
RECURSIVE LargestFrom(_, _, _, _, _)
LargestFrom(hs, rounded, i, best, max_payout) ==
    IF i > Len(hs) THEN best
    ELSE LET holder_payout == DictGet(rounded, hs[i].holder_name, 0)
             larger == IF best = 0 THEN ExceedsStart(holder_payout)
                       ELSE IsLarger(holder_payout, max_payout)
         IN  IF larger
             THEN LargestFrom(hs, rounded, i + 1, i, holder_payout)
             ELSE LargestFrom(hs, rounded, i + 1, best, max_payout)

RoundEach(pay) == [n \in DOMAIN pay |-> round_half_up(pay[n])]

RoundingDelta(pay, hs) ==
    DSub(SumDecimal(Values(RoundEach(pay), hs)), SumDecimal(Values(pay, hs)))

\* mutant: the search runs whatever the delta is
NeedsAdjustment_Always(delta) == TRUE

\* the guard "if rounding_delta != 0" around the search and the adjustment
NeedsAdjustment(delta) == delta # 0

AdjustedHolderName(pay, hs) ==
    LET best == LargestFrom(hs, RoundEach(pay), 1, 0, 0)
    IN  IF NeedsAdjustment(RoundingDelta(pay, hs)) /\ best # 0
        THEN hs[best].holder_name
        ELSE NoName

\* mutant: the delta is added
ApplyAdjustment_Added(rounded_payout, delta) == DAdd(rounded_payout, delta)

\* rounded_payouts[adjusted_holder_name] -= rounding_delta
ApplyAdjustment(rounded_payout, delta) == DSub(rounded_payout, delta)

\* round_and_reconcile returns (rounded_payouts, rounding_delta, name)
RoundedPayouts(pay, hs) ==
    LET name == AdjustedHolderName(pay, hs)
        rounded == RoundEach(pay)
    IN  IF name = NoName THEN rounded
        ELSE [rounded EXCEPT
                ![name] = ApplyAdjustment(@, RoundingDelta(pay, hs))]

\* HolderAllocationResult(...) for one holder, step 9 of calculate_period
BuildAllocation(h, gross, carry_in, rounded, carry_out, adjusted_name) ==
    [ holder_name |-> h.holder_name,
      shares |-> h.shares,
      gross_allocation |-> gross[h.holder_name],
      personal_charges |-> h.personal_charges,
      carry_forward_in |-> DictGet(carry_in, h.holder_name, 0),
      net_payout |-> rounded[h.holder_name],
      carry_forward_out |-> carry_out[h.holder_name],
      received_rounding_adjustment |-> (h.holder_name = adjusted_name) ]

\* fields of schemas.calculation.PeriodData declared with Field(...): required
PeriodDataRequired ==
    { "year", "month", "net_income_qb", "ps_addback", "owner_draws",
      "adjusted_pool", "total_shares", "rounding_delta" }

\* keyword arguments of the PeriodData(...) call in calculate_period
PeriodDataSupplied ==
    { "year", "month", "adjusted_pool", "total_shares", "rounding_delta" }

\* pydantic accepts the construction only when no required field is missing
PeriodDataValid == PeriodDataRequired \subseteq PeriodDataSupplied

-----------------------------------------------------------------------------
(* Inputs of one call                                                      *)

HolderNamePool == << "A", "B", "C", "D", "E" >>

\* personal_charges values (HolderInput: ge=0)
Charges == { 0, Cent }

\* the name of the i-th of n holders; with dup the last holder repeats the
\* first holder's name (calculate_period itself does not check uniqueness)
NameFor(i, n, dup) ==
    IF dup /\ n >= 2 /\ i = n THEN HolderNamePool[1] ELSE HolderNamePool[i]

\* holder lists of length n: shares in 1..MaxShares (HolderInput: gt=0)
HolderListsOfLen(n, dup) ==
    { [i \in 1..n |-> [ holder_name |-> NameFor(i, n, dup),
                        shares |-> f[i][1],
                        personal_charges |-> f[i][2] ]] :
      f \in [1..n -> (1..MaxShares) \X Charges] }

HolderLists(maxlen) ==
    UNION { HolderListsOfLen(n, FALSE) : n \in 0..maxlen }
    \cup UNION { HolderListsOfLen(n, TRUE) : n \in 2..maxlen }

UniqueHolderLists(maxlen) ==
    UNION { HolderListsOfLen(n, FALSE) : n \in 0..maxlen }

\* prior carry-forward maps: None, empty, a half-cent debt of A (the unrounded
\* carry_forward_out of an earlier period), a debt of A and of a name that is
\* not in the list
PriorMaps ==
    { None, Some(EmptyDict), Some([n \in {"A"} |-> HalfCent]),
      Some([n \in {"A", "Z"} |-> Cent]) }

\* PeriodInput values with the three optional adjustments at their default 0
PeriodInputs ==
    [ year : {2024}, month : {1},
      net_income_qb : { -Cent, 0, Cent, 2 * Cent },
      ps_addback : { 0, Cent },
      owner_draws : { 0, Cent },
      uncollectible : {0}, bad_debt : {0}, tax_optimization : {0} ]

\* PeriodInput values in which every field varies
PoolPeriodInputs ==
    [ year : {2024}, month : {1},
      net_income_qb : { -Cent, 0, Cent, 2 * Cent },
      ps_addback : { 0, Cent },
      owner_draws : { 0, Cent },
      uncollectible : { 0, Cent },
      bad_debt : { 0, Cent },
      tax_optimization : { 0, Cent } ]

NoError == "NoError"

\* the state at the entry of calculate_period
AtEntry ==
    /\ pc = "step1"
    /\ personal_addback_total = 0
    /\ adjusted_pool = 0
    /\ total_shares = 0
    /\ gross_allocations = EmptyDict
    /\ after_charges = EmptyDict
    /\ carry_forward_in = EmptyDict
    /\ payout_raw = EmptyDict
    /\ payouts = EmptyDict
    /\ carry_forward_out = EmptyDict
    /\ rounded_payouts = EmptyDict
    /\ rounding_delta = 0
    /\ adjusted_holder_name = NoName
    /\ allocations = << >>
    /\ result = None
    /\ raised = NoError
    /\ stages = << >>
    /\ divisors = {}

\* holder_allocations with no row, (year, month) of no call, no exception
NoRows == [id \in {} |-> << >>]
NoYearMonth == [year |-> 0, month |-> 0]
NoServiceError == [type |-> NoError, message |-> << >>]
NoHolderCall ==
    [ op |-> "none", holder_id |-> 0, name |-> {}, default_shares |-> {} ]

\* no second create_period call is in progress
NoConcurrentCall ==
    [ phase |-> "none", call |-> {}, first_requested |-> NoYearMonth,
      first_error |-> NoServiceError, second_error |-> NoServiceError ]

\* no HolderService call has been made and the table holders is empty, and
\* no second create_period call is in progress
NoHolders ==
    /\ concurrent = NoConcurrentCall
    /\ holder_rows = {}
    /\ holder_call = NoHolderCall
    /\ holder_error = NoServiceError
    /\ holder_returned = 0

\* calculate_period called on its own, as the calculation tests call it:
\* empty tables and no PeriodService call
DirectCall ==
    /\ monthly_periods = {}
    /\ holder_allocations = NoRows
    /\ caller = "test"
    /\ requested = NoYearMonth
    /\ service_error = NoServiceError
    /\ NoHolders

Init ==
    /\ period_data \in PeriodInputs
    /\ holders \in HolderLists(MaxHolders)
    /\ prior_carry_forwards \in PriorMaps
    /\ AtEntry
    /\ DirectCall

InitPool ==
    /\ period_data \in PoolPeriodInputs
    /\ holders \in UniqueHolderLists(MaxPoolHolders)
    /\ prior_carry_forwards \in { None, Some([n \in {"A"} |-> Cent]) }
    /\ AtEntry
    /\ DirectCall

-----------------------------------------------------------------------------
(* calculate_period, step by step                                          *)

\* Step 1: personal_addback_total
Step1_PersonalAddback ==
    /\ pc = "step1"
    /\ personal_addback_total' = calculate_personal_addback_total(holders)
    /\ stages' = Append(stages, "personal_addback_total")
    /\ pc' = "step2"
    /\ UNCHANGED << service, inputs, adjusted_pool, total_shares, gross_allocations,
                    after_charges, carry_forward_in, payout_raw, payouts,
                    carry_forward_out, rounded_payouts, rounding_delta,
                    adjusted_holder_name, allocations, result, raised,
                    divisors >>

\* Step 2: adjusted_pool
Step2_AdjustedPool ==
    /\ pc = "step2"
    /\ adjusted_pool' =
         calculate_adjusted_pool(period_data.net_income_qb,
                                 period_data.ps_addback,
                                 personal_addback_total,
                                 period_data.owner_draws,
                                 period_data.uncollectible,
                                 period_data.bad_debt,
                                 period_data.tax_optimization)
    /\ stages' = Append(stages, "adjusted_pool")
    /\ pc' = "step3"
    /\ UNCHANGED << service, inputs, personal_addback_total, total_shares,
                    gross_allocations, after_charges, carry_forward_in,
                    payout_raw, payouts, carry_forward_out, rounded_payouts,
                    rounding_delta, adjusted_holder_name, allocations, result,
                    raised, divisors >>

\* Step 3: total_shares
Step3_TotalShares ==
    /\ pc = "step3"
    /\ total_shares' = calculate_total_shares(holders)
    /\ stages' = Append(stages, "total_shares")
    /\ pc' = "validate"
    /\ UNCHANGED << service, inputs, personal_addback_total, adjusted_pool,
                    gross_allocations, after_charges, carry_forward_in,
                    payout_raw, payouts, carry_forward_out, rounded_payouts,
                    rounding_delta, adjusted_holder_name, allocations, result,
                    raised, divisors >>

\* the gate: raise ValueError("Total shares must be greater than 0 ...")
ValidateRaise ==
    /\ pc = "validate"
    /\ ValidationFails(adjusted_pool, total_shares)
    /\ raised' = "ValueError"
    /\ pc' = "raised"
    /\ UNCHANGED << service, inputs, personal_addback_total, adjusted_pool,
                    total_shares, gross_allocations, after_charges,
                    carry_forward_in, payout_raw, payouts, carry_forward_out,
                    rounded_payouts, rounding_delta, adjusted_holder_name,
                    allocations, result, stages, divisors >>

ValidatePass ==
    /\ pc = "validate"
    /\ ~ValidationFails(adjusted_pool, total_shares)
    /\ pc' = "step4"
    /\ UNCHANGED << service, inputs, personal_addback_total, adjusted_pool,
                    total_shares, gross_allocations, after_charges,
                    carry_forward_in, payout_raw, payouts, carry_forward_out,
                    rounded_payouts, rounding_delta, adjusted_holder_name,
                    allocations, result, raised, stages, divisors >>

\* Step 4: gross allocations; a division by Decimal(0) raises
\* decimal.DivisionByZero (or InvalidOperation for 0/0)
Step4_GrossAllocations ==
    /\ pc = "step4"
    /\ stages' = Append(stages, "gross_allocations")
    /\ IF NoShares(total_shares) \/ holders = << >>
       THEN divisors' = divisors
       ELSE divisors' = divisors \cup {total_shares}
    /\ IF ~NoShares(total_shares) /\ holders # << >> /\ total_shares = 0
       THEN /\ raised' = "DivisionByZero"
            /\ pc' = "raised"
            /\ UNCHANGED gross_allocations
       ELSE /\ gross_allocations' =
                 calculate_gross_allocations(adjusted_pool, holders,
                                             total_shares)
            /\ pc' = "step5"
            /\ UNCHANGED raised
    /\ UNCHANGED << service, inputs, personal_addback_total, adjusted_pool,
                    total_shares, after_charges, carry_forward_in, payout_raw,
                    payouts, carry_forward_out, rounded_payouts,
                    rounding_delta, adjusted_holder_name, allocations, result >>

\* Step 5: personal charges
Step5_PersonalCharges ==
    /\ pc = "step5"
    /\ after_charges' = apply_personal_charges(gross_allocations, holders)
    /\ stages' = Append(stages, "after_charges")
    /\ pc' = "step6"
    /\ UNCHANGED << service, inputs, personal_addback_total, adjusted_pool,
                    total_shares, gross_allocations, carry_forward_in,
                    payout_raw, payouts, carry_forward_out, rounded_payouts,
                    rounding_delta, adjusted_holder_name, allocations, result,
                    raised, divisors >>

\* mutant: the caller's map is read destructively, the entries of the listed
\* holders being popped from it
Step6_CarryForwards_Pops ==
    /\ pc = "step6"
    /\ carry_forward_in' = load_carry_forwards(prior_carry_forwards)
    /\ payout_raw' = apply_carry_forwards(after_charges, carry_forward_in',
                                          holders)
    /\ prior_carry_forwards' =
         IF prior_carry_forwards = None THEN None
         ELSE Some([n \in DOMAIN TheValue(prior_carry_forwards)
                          \ HolderNames(holders) |->
                      TheValue(prior_carry_forwards)[n]])
    /\ stages' = Append(stages, "payout_raw")
    /\ pc' = "step7"
    /\ UNCHANGED << service, period_data, holders, personal_addback_total,
                    adjusted_pool, total_shares, gross_allocations,
                    after_charges, payouts, carry_forward_out,
                    rounded_payouts, rounding_delta, adjusted_holder_name,
                    allocations, result, raised, divisors >>

\* Step 6: load and apply carry-forwards
Step6_CarryForwards ==
    /\ pc = "step6"
    /\ carry_forward_in' = load_carry_forwards(prior_carry_forwards)
    /\ payout_raw' = apply_carry_forwards(after_charges, carry_forward_in',
                                          holders)
    /\ stages' = Append(stages, "payout_raw")
    /\ pc' = "step7"
    /\ UNCHANGED << service, inputs, personal_addback_total, adjusted_pool,
                    total_shares, gross_allocations, after_charges, payouts,
                    carry_forward_out, rounded_payouts, rounding_delta,
                    adjusted_holder_name, allocations, result, raised,
                    divisors >>

\* Step 7: zero floor
Step7_ZeroFloor ==
    /\ pc = "step7"
    /\ payouts' = apply_zero_floor_payouts(payout_raw, holders)
    /\ carry_forward_out' = apply_zero_floor_carry(payout_raw, holders)
    /\ stages' = Append(stages, "zero_floor")
    /\ pc' = "step8"
    /\ UNCHANGED << service, inputs, personal_addback_total, adjusted_pool,
                    total_shares, gross_allocations, after_charges,
                    carry_forward_in, payout_raw, rounded_payouts,
                    rounding_delta, adjusted_holder_name, allocations, result,
                    raised, divisors >>

\* Step 8: round and reconcile
Step8_RoundAndReconcile ==
    /\ pc = "step8"
    /\ rounded_payouts' = RoundedPayouts(payouts, holders)
    /\ rounding_delta' = RoundingDelta(payouts, holders)
    /\ adjusted_holder_name' = AdjustedHolderName(payouts, holders)
    /\ stages' = Append(stages, "round_and_reconcile")
    /\ pc' = "step9"
    /\ UNCHANGED << service, inputs, personal_addback_total, adjusted_pool,
                    total_shares, gross_allocations, after_charges,
                    carry_forward_in, payout_raw, payouts, carry_forward_out,
                    allocations, result, raised, divisors >>

\* Step 9, first half: one HolderAllocationResult per holder, in list order
Step9_BuildAllocations ==
    /\ pc = "step9"
    /\ allocations' =
         [i \in 1..Len(holders) |->
            BuildAllocation(holders[i], gross_allocations, carry_forward_in,
                            rounded_payouts, carry_forward_out,
                            adjusted_holder_name)]
    /\ stages' = Append(stages, "allocations")
    /\ pc' = "period"
    /\ UNCHANGED << service, inputs, personal_addback_total, adjusted_pool,
                    total_shares, gross_allocations, after_charges,
                    carry_forward_in, payout_raw, payouts, carry_forward_out,
                    rounded_payouts, rounding_delta, adjusted_holder_name,
                    result, raised, divisors >>

\* Step 9, second half: PeriodData(...) and CalculationResult(...); pydantic
\* raises ValidationError when a required field of PeriodData is not supplied
Step9_BuildResult ==
    /\ pc = "period"
    /\ stages' = Append(stages, "period")
    /\ IF PeriodDataValid
       THEN /\ result' = Some([ period |-> [ year |-> period_data.year,
                                             month |-> period_data.month,
                                             adjusted_pool |-> adjusted_pool,
                                             total_shares |-> total_shares,
                                             rounding_delta |-> rounding_delta ],
                                allocations |-> allocations ])
            /\ pc' = "returned"
            /\ UNCHANGED raised
       ELSE /\ raised' = "ValidationError"
            /\ pc' = "raised"
            /\ UNCHANGED result
    /\ UNCHANGED << service, inputs, personal_addback_total, adjusted_pool,
                    total_shares, gross_allocations, after_charges,
                    carry_forward_in, payout_raw, payouts, carry_forward_out,
                    rounded_payouts, rounding_delta, adjusted_holder_name,
                    allocations, divisors >>

Next ==
    \/ Step1_PersonalAddback
    \/ Step2_AdjustedPool
    \/ Step3_TotalShares
    \/ ValidateRaise
    \/ ValidatePass
    \/ Step4_GrossAllocations
    \/ Step5_PersonalCharges
    \/ Step6_CarryForwards
    \/ Step7_ZeroFloor
    \/ Step8_RoundAndReconcile
    \/ Step9_BuildAllocations
    \/ Step9_BuildResult

Spec == Init /\ [][Next]_vars

\* the runs over every PeriodInput field, for the pool formula
SpecPool == InitPool /\ [][Next]_vars

\* holder lists with unique names, no personal charges and a wider range of
\* share counts
WideHolderLists ==
    UNION { { [i \in 1..n |-> [ holder_name |-> HolderNamePool[i],
                                shares |-> f[i],
                                personal_charges |-> 0 ]] :
              f \in [1..n -> 1..MaxWideShares] } : n \in 0..MaxHolders }

InitShares ==
    /\ period_data \in PeriodInputs
    /\ holders \in WideHolderLists
    /\ prior_carry_forwards = None
    /\ AtEntry
    /\ DirectCall

\* the runs over the wider share counts, for sums of quotients
SpecShares == InitShares /\ [][Next]_vars

-----------------------------------------------------------------------------
(* The tables and the repositories                                         *)

\* the calendar months of the runs: a year boundary and the month after it
YearMonths ==
    { [year |-> 2023, month |-> 12], [year |-> 2024, month |-> 1],
      [year |-> 2024, month |-> 2] }

PeriodIds == { p.id : p \in monthly_periods }

\* INTEGER PRIMARY KEY of SQLite: one more than the largest id in the table
NextId ==
    IF monthly_periods = {} THEN 1
    ELSE 1 + (CHOOSE i \in PeriodIds : \A j \in PeriodIds : j <= i)

\* PeriodRepository.find_by_year_month: filter(...).first()
find_by_year_month(year, month) ==
    LET found == { p \in monthly_periods : p.year = year /\ p.month = month }
    IN  IF found = {} THEN None
        ELSE Some(CHOOSE p \in found : \A q \in found : p.id <= q.id)

\* mutant: the table has no unique constraint
ViolatesUqYearMonth_Off(id, year, month) == FALSE

\* UniqueConstraint("year", "month"): would a row (year, month) written under
\* id collide with another row
ViolatesUqYearMonth(id, year, month) ==
    \E p \in monthly_periods :
        p.id # id /\ p.year = year /\ p.month = month

\* HolderAllocationRepository.find_carry_forwards
find_carry_forwards(period_id) ==
    LET found == IF period_id \in DOMAIN holder_allocations
                 THEN holder_allocations[period_id] ELSE << >>
    IN  [n \in HolderNames(found) |-> LastHolder(found, n).carry_forward_out]

\* HolderAllocationRepository.save_all for the rows of one period
save_all(period_id, rows) ==
    [id \in DOMAIN holder_allocations \cup {period_id} |->
        IF id = period_id THEN rows ELSE holder_allocations[id]]

\* PeriodRepository.delete, with the cascade onto the period's allocations
delete_allocations(period_id) ==
    [id \in DOMAIN holder_allocations \ {period_id} |-> holder_allocations[id]]

\* mutant: January's predecessor is looked up in the same year
get_prior_period_SameYear(year, month) ==
    LET prior_year == year
        prior_month == IF month = 1 THEN 12 ELSE month - 1
    IN  find_by_year_month(prior_year, prior_month)

\* PeriodService.get_prior_period
get_prior_period(year, month) ==
    LET prior_year == IF month = 1 THEN year - 1 ELSE year
        prior_month == IF month = 1 THEN 12 ELSE month - 1
    IN  find_by_year_month(prior_year, prior_month)

\* prior_carry_forwards as create_period and update_period obtain it
PriorCarryForwards(year, month) ==
    IF get_prior_period(year, month) = None THEN None
    ELSE Some(find_carry_forwards(TheValue(get_prior_period(year, month)).id))

\* a DECIMAL(12, 2) column keeps two decimal places
Numeric2(value) == round_half_up(value)

\* PeriodService._create_period_entity / _update_period_entity
PeriodEntity(id, pd, pool, shares_total, delta) ==
    [ id |-> id, year |-> pd.year, month |-> pd.month,
      net_income_qb |-> Numeric2(pd.net_income_qb),
      ps_addback |-> Numeric2(pd.ps_addback),
      owner_draws |-> Numeric2(pd.owner_draws),
      uncollectible |-> Numeric2(pd.uncollectible),
      bad_debt |-> Numeric2(pd.bad_debt),
      tax_optimization |-> Numeric2(pd.tax_optimization),
      adjusted_pool |-> Numeric2(pool),
      total_shares |-> shares_total,
      rounding_delta |-> Numeric2(delta) ]

\* PeriodService._create_allocation_entities
AllocationEntities(allocs) ==
    [i \in 1..Len(allocs) |->
        [ holder_name |-> allocs[i].holder_name,
          shares |-> allocs[i].shares,
          personal_charges |-> Numeric2(allocs[i].personal_charges),
          carry_forward_in |-> Numeric2(allocs[i].carry_forward_in),
          gross_allocation |-> Numeric2(allocs[i].gross_allocation),
          net_payout |-> Numeric2(allocs[i].net_payout),
          carry_forward_out |-> Numeric2(allocs[i].carry_forward_out),
          received_rounding_adjustment |->
              allocs[i].received_rounding_adjustment ]]

\* f"{year}-{month:02d}"
YearMonthText(year, month) ==
    ToString(year) \o "-"
        \o (IF month < 10 THEN "0" \o ToString(month) ELSE ToString(month))

\* exceptions, the message as its sequence of words
AlreadyExists(year, month) ==
    [ type |-> "ValueError",
      message |-> << "Period", "for", YearMonthText(year, month),
                     "already", "exists" >> ]

NotFound(year, month) ==
    [ type |-> "ValueError",
      message |-> << "Period", "for", YearMonthText(year, month),
                     "not", "found" >> ]

NoAllocations ==
    [ type |-> "ValueError",
      message |-> << "Calculation", "result", "must", "have", "at", "least",
                     "one", "allocation" >> ]

SharesMismatch ==
    [ type |-> "ValueError",
      message |-> << "Total", "shares", "mismatch" >> ]

IntegrityError ==
    [ type |-> "IntegrityError",
      message |-> << "UNIQUE", "constraint", "failed" >> ]

\* mutant: the exception of calculate_period is swallowed
CalculationError_Swallowed(kind) == NoServiceError

\* the exception calculate_period raised, as it leaves the service call
CalculationError(kind) ==
    [ type |-> kind,
      message |-> IF kind = "ValueError"
                  THEN << "Total", "shares", "must", "be", "greater", "than",
                          "0", "when", "adjusted", "pool", "is", "positive" >>
                  ELSE IF kind = "ValidationError"
                  THEN << "validation", "errors", "for", "PeriodData" >>
                  ELSE << kind >> ]

\* PeriodService._validate_calculation_result: the exception it raises, or
\* NoServiceError
validate_calculation_result(calc_result) ==
    IF Len(calc_result.allocations) = 0 THEN NoAllocations
    ELSE IF SumInt([i \in 1..Len(calc_result.allocations) |->
                        calc_result.allocations[i].shares], 1)
            # calc_result.period.total_shares
    THEN SharesMismatch
    ELSE NoServiceError

-----------------------------------------------------------------------------
(* Inputs of the PeriodService calls and rows written without the service  *)

ServicePeriodInputs ==
    { [ year |-> ym.year, month |-> ym.month, net_income_qb |-> 2 * Cent,
        ps_addback |-> 0, owner_draws |-> 0, uncollectible |-> 0,
        bad_debt |-> 0, tax_optimization |-> 0 ] : ym \in YearMonths }

HolderOf(name) == [ holder_name |-> name, shares |-> 1, personal_charges |-> 0 ]

ServiceHolderLists ==
    { << >>, << HolderOf("A") >>, << HolderOf("A"), HolderOf("B") >> }

\* an allocation row of a holder whose charges exceed the gross allocation by
\* one cent: no payout, one cent carried forward
RowInDebt(name, gross) ==
    [ holder_name |-> name, shares |-> 1, personal_charges |-> gross + Cent,
      carry_forward_in |-> 0, gross_allocation |-> gross, net_payout |-> 0,
      carry_forward_out |-> Cent, received_rounding_adjustment |-> FALSE ]

\* an allocation row of a holder who is paid the gross allocation
RowPaid(name, gross) ==
    [ holder_name |-> name, shares |-> 1, personal_charges |-> 0,
      carry_forward_in |-> 0, gross_allocation |-> gross, net_payout |-> gross,
      carry_forward_out |-> 0, received_rounding_adjustment |-> FALSE ]

\* the allocation rows of a period written without the service
StoredRosters ==
    { << RowInDebt("A", 0) >>, << RowPaid("B", Cent) >>,
      << RowInDebt("A", Cent), RowPaid("B", Cent) >> }

\* the period row that goes with such rows
StoredPeriod(id, ym, rows) ==
    LET pool == SumDecimal([i \in 1..Len(rows) |-> rows[i].gross_allocation])
        charges == SumDecimal([i \in 1..Len(rows) |->
                                  rows[i].personal_charges])
    IN  [ id |-> id, year |-> ym.year, month |-> ym.month,
          net_income_qb |-> pool - charges, ps_addback |-> 0,
          owner_draws |-> 0, uncollectible |-> 0, bad_debt |-> 0,
          tax_optimization |-> 0, adjusted_pool |-> pool,
          total_shares |-> Len(rows), rounding_delta |-> 0 ]

\* the state between two calls: no call of calculate_period in progress
AtRest ==
    /\ pc = "idle"
    /\ personal_addback_total = 0
    /\ adjusted_pool = 0
    /\ total_shares = 0
    /\ gross_allocations = EmptyDict
    /\ after_charges = EmptyDict
    /\ carry_forward_in = EmptyDict
    /\ payout_raw = EmptyDict
    /\ payouts = EmptyDict
    /\ carry_forward_out = EmptyDict
    /\ rounded_payouts = EmptyDict
    /\ rounding_delta = 0
    /\ adjusted_holder_name = NoName
    /\ allocations = << >>
    /\ result = None
    /\ raised = NoError
    /\ stages = << >>
    /\ divisors = {}

InitService ==
    /\ monthly_periods = {}
    /\ holder_allocations = NoRows
    /\ caller = "none"
    /\ requested = NoYearMonth
    /\ service_error = NoServiceError
    /\ period_data \in { pd \in ServicePeriodInputs :
                            pd.year = 2023 /\ pd.month = 12 }
    /\ holders = << >>
    /\ prior_carry_forwards = None
    /\ AtRest
    /\ NoHolders

-----------------------------------------------------------------------------
(* PeriodService                                                           *)

locals == << pc, personal_addback_total, adjusted_pool, total_shares,
             gross_allocations, after_charges, carry_forward_in, payout_raw,
             payouts, carry_forward_out, rounded_payouts, rounding_delta,
             adjusted_holder_name, allocations, result, raised, stages,
             divisors >>

\* the locals of a call of calculate_period that is starting (to "step1") or
\* is over (to "idle")
FreshLocals(to) ==
    /\ pc' = to
    /\ personal_addback_total' = 0
    /\ adjusted_pool' = 0
    /\ total_shares' = 0
    /\ gross_allocations' = EmptyDict
    /\ after_charges' = EmptyDict
    /\ carry_forward_in' = EmptyDict
    /\ payout_raw' = EmptyDict
    /\ payouts' = EmptyDict
    /\ carry_forward_out' = EmptyDict
    /\ rounded_payouts' = EmptyDict
    /\ rounding_delta' = 0
    /\ adjusted_holder_name' = NoName
    /\ allocations' = << >>
    /\ result' = None
    /\ raised' = NoError
    /\ stages' = << >>
    /\ divisors' = {}

\* period_repo.save(period) and holder_repo.save_all(allocations) called
\* without the service (fixtures, scripts): the commit fails on uq_year_month
save_directly ==
    /\ caller = "none"
    /\ NextId <= MaxPeriodId
    /\ \E ym \in YearMonths, rows \in StoredRosters :
          /\ ~ViolatesUqYearMonth(NextId, ym.year, ym.month)
          /\ monthly_periods' =
                monthly_periods \cup { StoredPeriod(NextId, ym, rows) }
          /\ holder_allocations' = save_all(NextId, rows)
    /\ UNCHANGED << caller, requested, service_error, inputs, locals,
                    holder_service, concurrent >>

\* DELETE /api/periods/{year}/{month}: period_repo.delete(period.id)
delete_period ==
    /\ caller = "none"
    /\ \E ym \in YearMonths :
          /\ find_by_year_month(ym.year, ym.month) # None
          /\ LET period == TheValue(find_by_year_month(ym.year, ym.month))
             IN  /\ monthly_periods' = monthly_periods \ {period}
                 /\ holder_allocations' = delete_allocations(period.id)
    /\ UNCHANGED << caller, requested, service_error, inputs, locals,
                    holder_service, concurrent >>

\* mutant: the lookup before the calculation is skipped
Existing_Skipped(year, month) == None

\* existing = self.period_repo.find_by_year_month(year, month)
Existing(year, month) == find_by_year_month(year, month)

\* create_period up to its call of calculate_period
create_period ==
    /\ caller = "none"
    /\ concurrent.phase # "checked"
    /\ \E pd \in ServicePeriodInputs, hs \in ServiceHolderLists :
          /\ period_data' = pd
          /\ holders' = hs
          /\ requested' = [ year |-> pd.year, month |-> pd.month ]
          /\ IF Existing(pd.year, pd.month) # None
             THEN /\ service_error' = AlreadyExists(pd.year, pd.month)
                  /\ prior_carry_forwards' = None
                  /\ UNCHANGED << caller, locals >>
             ELSE /\ prior_carry_forwards' =
                       PriorCarryForwards(pd.year, pd.month)
                  /\ service_error' = NoServiceError
                  /\ caller' = "create_period"
                  /\ FreshLocals("step1")
    /\ UNCHANGED << database, holder_service, concurrent >>

\* create_period from the return of calculate_period on: the exception
\* propagates, or the result is validated and saved
create_period_resume ==
    /\ caller = "create_period"
    /\ pc \in { "returned", "raised" }
    /\ IF pc = "raised"
       THEN /\ service_error' = CalculationError(raised)
            /\ UNCHANGED database
       ELSE IF validate_calculation_result(TheValue(result)) # NoServiceError
       THEN /\ service_error' = validate_calculation_result(TheValue(result))
            /\ UNCHANGED database
       ELSE IF ViolatesUqYearMonth(NextId, period_data.year,
                                   period_data.month)
       THEN /\ service_error' = IntegrityError
            /\ UNCHANGED database
       ELSE /\ service_error' = NoServiceError
            /\ monthly_periods' =
                 monthly_periods \cup
                   { PeriodEntity(NextId, period_data, adjusted_pool,
                                  total_shares, rounding_delta) }
            /\ holder_allocations' =
                 save_all(NextId,
                          AllocationEntities(TheValue(result).allocations))
    /\ concurrent' =
          IF concurrent.phase = "running"
          THEN [concurrent EXCEPT !.phase = "over",
                                  !.second_error = service_error']
          ELSE concurrent
    /\ caller' = "none"
    /\ FreshLocals("idle")
    /\ UNCHANGED << inputs, requested, holder_service >>

\* update_period up to its call of calculate_period
update_period ==
    /\ caller = "none"
    /\ \E ym \in YearMonths, pd \in ServicePeriodInputs,
          hs \in ServiceHolderLists :
          /\ period_data' = pd
          /\ holders' = hs
          /\ requested' = ym
          /\ IF find_by_year_month(ym.year, ym.month) = None
             THEN /\ service_error' = NotFound(ym.year, ym.month)
                  /\ prior_carry_forwards' = None
                  /\ UNCHANGED << caller, locals >>
             ELSE /\ prior_carry_forwards' =
                       PriorCarryForwards(pd.year, pd.month)
                  /\ service_error' = NoServiceError
                  /\ caller' = "update_period"
                  /\ FreshLocals("step1")
    /\ UNCHANGED << database, holder_service, concurrent >>

\* update_period from the return of calculate_period on: the exception
\* propagates, or the period row is overwritten under its id (the commit
\* fails on uq_year_month) and its allocations are replaced
update_period_resume ==
    /\ caller = "update_period"
    /\ pc \in { "returned", "raised" }
    /\ LET existing_period ==
               TheValue(find_by_year_month(requested.year, requested.month))
       IN  IF pc = "raised"
           THEN /\ service_error' = CalculationError(raised)
                /\ UNCHANGED database
           ELSE IF validate_calculation_result(TheValue(result))
                     # NoServiceError
           THEN /\ service_error' =
                     validate_calculation_result(TheValue(result))
                /\ UNCHANGED database
           ELSE IF ViolatesUqYearMonth(existing_period.id, period_data.year,
                                       period_data.month)
           THEN /\ service_error' = IntegrityError
                /\ UNCHANGED database
           ELSE /\ service_error' = NoServiceError
                /\ monthly_periods' =
                     (monthly_periods \ {existing_period}) \cup
                       { PeriodEntity(existing_period.id, period_data,
                                      adjusted_pool, total_shares,
                                      rounding_delta) }
                /\ holder_allocations' =
                     save_all(existing_period.id,
                              AllocationEntities(TheValue(result).allocations))
    /\ caller' = "none"
    /\ FreshLocals("idle")
    /\ UNCHANGED << inputs, requested, holder_service, concurrent >>

\* a second create_period call, made while the first one is calculating, up
\* to its call of calculate_period: it has looked the month up and read the
\* prior carry-forwards
create_period_concurrently ==
    /\ caller = "create_period"
    /\ concurrent.phase \in { "none", "refused", "over" }
    /\ \E pd \in ServicePeriodInputs, hs \in ServiceHolderLists :
          IF Existing(pd.year, pd.month) # None
          THEN concurrent' =
                  [ phase |-> "refused", call |-> None,
                    first_requested |-> requested,
                    first_error |-> NoServiceError,
                    second_error |-> AlreadyExists(pd.year, pd.month) ]
          ELSE concurrent' =
                  [ phase |-> "checked",
                    call |-> Some([ period_data |-> pd, holders |-> hs,
                                    prior_carry_forwards |->
                                        PriorCarryForwards(pd.year,
                                                           pd.month) ]),
                    first_requested |-> requested,
                    first_error |-> NoServiceError,
                    second_error |-> NoServiceError ]
    /\ UNCHANGED << database, caller, requested, service_error,
                    holder_service, inputs, locals >>

\* the second call goes on to calculate_period once the first call is over;
\* the calculation reads nothing but its arguments, so its steps may be
\* taken after those of the first call
create_period_continue ==
    /\ caller = "none"
    /\ concurrent.phase = "checked"
    /\ period_data' = TheValue(concurrent.call).period_data
    /\ holders' = TheValue(concurrent.call).holders
    /\ prior_carry_forwards' = TheValue(concurrent.call).prior_carry_forwards
    /\ requested' = [ year |-> TheValue(concurrent.call).period_data.year,
                      month |-> TheValue(concurrent.call).period_data.month ]
    /\ concurrent' = [ phase |-> "running", call |-> None,
                       first_requested |-> concurrent.first_requested,
                       first_error |-> service_error,
                       second_error |-> NoServiceError ]
    /\ service_error' = NoServiceError
    /\ caller' = "create_period"
    /\ FreshLocals("step1")
    /\ UNCHANGED << database, holder_service >>

NextService ==
    \/ save_directly
    \/ delete_period
    \/ create_period
    \/ create_period_resume
    \/ update_period
    \/ update_period_resume
    \/ Step1_PersonalAddback
    \/ Step2_AdjustedPool
    \/ Step3_TotalShares
    \/ ValidateRaise
    \/ ValidatePass
    \/ Step4_GrossAllocations
    \/ Step5_PersonalCharges
    \/ Step6_CarryForwards
    \/ Step7_ZeroFloor
    \/ Step8_RoundAndReconcile
    \/ Step9_BuildAllocations
    \/ Step9_BuildResult

\* PeriodService over the two tables
SpecService == InitService /\ [][NextService]_vars

\* two create_period calls, the second made while the first is calculating
NextConcurrent ==
    \/ save_directly
    \/ create_period
    \/ create_period_concurrently
    \/ create_period_resume
    \/ create_period_continue
    \/ Step1_PersonalAddback
    \/ Step2_AdjustedPool
    \/ Step3_TotalShares
    \/ ValidateRaise
    \/ ValidatePass
    \/ Step4_GrossAllocations
    \/ Step5_PersonalCharges
    \/ Step6_CarryForwards
    \/ Step7_ZeroFloor
    \/ Step8_RoundAndReconcile
    \/ Step9_BuildAllocations
    \/ Step9_BuildResult

SpecConcurrent == InitService /\ [][NextConcurrent]_vars

-----------------------------------------------------------------------------
(* Vocabulary of the properties                                            *)

HasRun(stage) == \E i \in 1..Len(stages) : stages[i] = stage

UniqueNames(hs) ==
    \A i, j \in 1..Len(hs) : hs[i].holder_name = hs[j].holder_name => i = j

\* exact (unrounded) integer sum of f(s[i]) over a sequence
RECURSIVE ExactSum(_, _, _)
ExactSum(s, f(_), i) ==
    IF i > Len(s) THEN 0 ELSE f(s[i]) + ExactSum(s, f, i + 1)

NetPayout(a) == a.net_payout
Charge(a) == a.personal_charges
CarryIn(a) == a.carry_forward_in
CarryOut(a) == a.carry_forward_out
GrossOf(a) == a.gross_allocation

Flagged == { i \in 1..Len(allocations) :
               allocations[i].received_rounding_adjustment }

\* C1: every allocation built by calculate_period has net_payout >= 0, the
\* holder that had rounding_delta subtracted included
C1_NetPayoutNonNegative ==
    (HasRun("allocations") /\ UniqueNames(holders)) =>
        \A i \in 1..Len(allocations) : allocations[i].net_payout >= 0

\* C2: the net payouts sum to the unrounded payout total (adjusted_pool minus
\* charges minus carry-forward in plus carry-forward out) rounded to cents
C2_SumIsRoundedTotal ==
    (HasRun("allocations") /\ UniqueNames(holders) /\ total_shares > 0) =>
        ExactSum(allocations, NetPayout, 1) =
            round_half_up(adjusted_pool
                          - ExactSum(allocations, Charge, 1)
                          - ExactSum(allocations, CarryIn, 1)
                          + ExactSum(allocations, CarryOut, 1))

\* exact sum of the gross allocations of the holders in the list
GrossAt(h) == gross_allocations[h.holder_name]
ExactGrossSum == ExactSum(holders, GrossAt, 1)

GrossStageDone ==
    HasRun("gross_allocations") /\ UniqueNames(holders) /\ total_shares > 0

RoundedBefore(i) == RoundEach(payouts)[holders[i].holder_name]

TiedForLargest ==
    { i \in 1..Len(holders) :
        \A j \in 1..Len(holders) : RoundedBefore(j) <= RoundedBefore(i) }

TieCase ==
    /\ HasRun("round_and_reconcile")
    /\ UniqueNames(holders)
    /\ rounding_delta # 0
    /\ Cardinality(TiedForLargest) >= 2

FirstTied == CHOOSE i \in TiedForLargest : \A j \in TiedForLargest : i <= j
LastTied == CHOOSE i \in TiedForLargest : \A j \in TiedForLargest : j <= i

\* holder i, and nobody else, had rounding_delta subtracted and is reported
OnlyAdjusted(i) ==
    /\ adjusted_holder_name = holders[i].holder_name
    /\ \A j \in 1..Len(holders) :
         rounded_payouts[holders[j].holder_name] =
            IF j = i THEN DSub(RoundedBefore(j), rounding_delta)
            ELSE RoundedBefore(j)

\* C4 (as stated): on a tie for the largest rounded payout with a non-zero
\* rounding_delta, the last tied holder in list order is adjusted and reported
C4_LastTiedAdjusted == TieCase => OnlyAdjusted(LastTied)

\* C4 (amended): on such a tie the first tied holder in list order is
\* adjusted and reported
C4_FirstTiedAdjusted == TieCase => OnlyAdjusted(FirstTied)

C4_Witness == TieCase /\ OnlyAdjusted(FirstTied) /\ FirstTied # LastTied

C6_WholeCents ==
    (HasRun("allocations") /\ UniqueNames(holders)) =>
        \A i \in 1..Len(allocations) : allocations[i].net_payout % Cent = 0

\* C7: adjusted_pool = net_income + ps_addback + sum of all personal charges
\* - owner_draws - uncollectible - tax_optimization + bad_debt
HolderCharge(h) == h.personal_charges

C7_AdjustedPoolFormula ==
    HasRun("adjusted_pool") =>
        adjusted_pool = period_data.net_income_qb + period_data.ps_addback
                        + ExactSum(holders, HolderCharge, 1)
                        - period_data.owner_draws - period_data.uncollectible
                        - period_data.tax_optimization + period_data.bad_debt

C7_Witness ==
    /\ HasRun("period")
    /\ period_data.net_income_qb # 0
    /\ period_data.ps_addback # 0
    /\ period_data.owner_draws # 0
    /\ period_data.uncollectible # 0
    /\ period_data.bad_debt # 0
    /\ period_data.tax_optimization # 0
    /\ Len(holders) = 2
    /\ \A i \in 1..Len(holders) : holders[i].personal_charges > 0

LaterStages ==
    { "gross_allocations", "after_charges", "payout_raw", "zero_floor",
      "round_and_reconcile", "allocations", "period" }

\* C8: with adjusted_pool > 0 and total_shares = 0 the ValueError is raised
\* before any later stage runs and nothing is returned; no division by a zero
\* total_shares is executed
C8_GateBeforeStages ==
    /\ 0 \notin divisors
    /\ raised # "DivisionByZero"
    /\ (HasRun("total_shares") /\ pc # "validate"
        /\ adjusted_pool > 0 /\ total_shares = 0) => raised = "ValueError"
    /\ raised = "ValueError" =>
         /\ \A st \in LaterStages : ~HasRun(st)
         /\ gross_allocations = EmptyDict
         /\ rounded_payouts = EmptyDict
         /\ allocations = << >>
         /\ result = None

C8_Witness ==
    /\ raised = "ValueError"
    /\ adjusted_pool > 0
    /\ total_shares = 0

CallOver == pc \in { "returned", "raised" }

\* C9: with adjusted_pool = 0 and total_shares = 0 calculate_period raises
\* nothing and returns adjusted_pool 0, total_shares 0 and all-zero allocations
C9_ZeroPoolZeroSharesSucceeds ==
    (CallOver /\ adjusted_pool = 0 /\ total_shares = 0) =>
        /\ raised = NoError
        /\ result # None
        /\ TheValue(result).period.adjusted_pool = 0
        /\ TheValue(result).period.total_shares = 0
        /\ \A i \in 1..Len(TheValue(result).allocations) :
             /\ TheValue(result).allocations[i].gross_allocation = 0
             /\ TheValue(result).allocations[i].net_payout = 0

HolderShares(h) == h.shares

\* C10: every input that passes the gate yields a returned result with year,
\* month, adjusted_pool, total_shares = sum of shares, rounding_delta =
\* rounded total - unrounded total, and one allocation per holder in order
C10_ReturnsResult ==
    (CallOver /\ ~(adjusted_pool > 0 /\ total_shares = 0)) =>
        /\ raised = NoError
        /\ result # None
        /\ TheValue(result).period.year = period_data.year
        /\ TheValue(result).period.month = period_data.month
        /\ TheValue(result).period.adjusted_pool = adjusted_pool
        /\ TheValue(result).period.total_shares
              = ExactSum(holders, HolderShares, 1)
        /\ TheValue(result).period.rounding_delta
              = RoundingDelta(payouts, holders)
        /\ Len(TheValue(result).allocations) = Len(holders)
        /\ \A i \in 1..Len(holders) :
             TheValue(result).allocations[i].holder_name
                = holders[i].holder_name

-----------------------------------------------------------------------------
(* C11: the zero floor, holder by holder                                   *)

RawOf(i) == payout_raw[holders[i].holder_name]

\* the payout and the carry-forward the zero floor gives holder i, read from
\* that holder's own payout_raw alone
FlooredFromOwnRaw(i) ==
    LET n == holders[i].holder_name
    IN  /\ RawOf(i) < 0 =>
              payouts[n] = 0 /\ carry_forward_out[n] = -RawOf(i)
        /\ RawOf(i) >= 0 =>
              payouts[n] = RawOf(i) /\ carry_forward_out[n] = 0

\* C11: for every holder of a list with unique names, payout_raw is
\* gross_allocation - personal_charges - carry_forward_in; below zero the
\* unrounded payout is 0 and carry_forward_out is -payout_raw, otherwise the
\* payout is payout_raw and carry_forward_out is 0; both are determined by
\* the holder's own payout_raw, whatever the other holders' values are
C11_ZeroFloorPerHolder ==
    (HasRun("zero_floor") /\ UniqueNames(holders)) =>
        \A i \in 1..Len(holders) :
            LET n == holders[i].holder_name
            IN  /\ RawOf(i) =
                     DSub(DSub(gross_allocations[n],
                               holders[i].personal_charges),
                          DictGet(carry_forward_in, n, 0))
                /\ FlooredFromOwnRaw(i)

\* a run in which one holder ends below zero and another above
C11_Witness ==
    /\ HasRun("zero_floor") /\ UniqueNames(holders)
    /\ \E i, j \in 1..Len(holders) :
          /\ RawOf(i) < 0 /\ carry_forward_out[holders[i].holder_name] > 0
          /\ RawOf(j) > 0 /\ payouts[holders[j].holder_name] = RawOf(j)

-----------------------------------------------------------------------------
(* C12: carry-forward loading                                              *)

\* CarryForwardMap.get(holder_name, 0), None standing for the empty map
PriorValue(n) ==
    IF prior_carry_forwards = None THEN 0
    ELSE DictGet(TheValue(prior_carry_forwards), n, 0)

\* the prior map without the entries of names that are not in the list
PriorOfListed ==
    [n \in DOMAIN load_carry_forwards(prior_carry_forwards)
           \cap HolderNames(holders) |->
        load_carry_forwards(prior_carry_forwards)[n]]

UnlistedPriorNames ==
    DOMAIN load_carry_forwards(prior_carry_forwards) \ HolderNames(holders)

\* C12: every allocation's carry_forward_in is the prior map's value for the
\* holder's name, 0 when the name is absent or the map is None; there is one
\* allocation per listed holder and none for an unlisted name of the map, and
\* gross allocations, payouts and carry-forwards out are those of the map
\* without its unlisted entries
C12_CarryForwardIn ==
    HasRun("allocations") =>
        /\ Len(allocations) = Len(holders)
        /\ \A i \in 1..Len(allocations) :
              /\ allocations[i].holder_name = holders[i].holder_name
              /\ allocations[i].carry_forward_in =
                    PriorValue(holders[i].holder_name)
        /\ DOMAIN gross_allocations = HolderNames(holders)
        /\ payout_raw =
              apply_carry_forwards(after_charges, PriorOfListed, holders)
        /\ DOMAIN rounded_payouts = HolderNames(holders)
        /\ DOMAIN carry_forward_out = HolderNames(holders)

\* a listed holder with a debt brought in, next to a map entry of a name
\* that is not in the list
C12_Witness ==
    /\ HasRun("allocations")
    /\ UnlistedPriorNames # {}
    /\ \E i \in 1..Len(allocations) : allocations[i].carry_forward_in > 0
    /\ \E i \in 1..Len(allocations) : allocations[i].carry_forward_in = 0

-----------------------------------------------------------------------------
(* Vocabulary of the PeriodService properties                              *)

\* calendar months counted from year 0
MonthIndex(ym) == 12 * ym.year + ym.month

YearMonthOf(pd) == [ year |-> pd.year, month |-> pd.month ]

RowsOf(period) == holder_allocations[period.id]

\* the stored periods before the requested month that list the name
EarlierWith(n) ==
    { p \in monthly_periods :
        /\ MonthIndex(p) < MonthIndex(requested)
        /\ n \in HolderNames(RowsOf(p)) }

\* what the name still owes: the carry_forward_out of its latest allocation
\* before the requested month
Owed(n) ==
    IF EarlierWith(n) = {} THEN 0
    ELSE LET latest == CHOOSE p \in EarlierWith(n) :
                          \A q \in EarlierWith(n) :
                              MonthIndex(q) <= MonthIndex(p)
         IN  LastHolder(RowsOf(latest), n).carry_forward_out

\* re.search(pattern, message) for a pattern of literal words
Matches(pattern, message) ==
    \E k \in 0..(Len(message) - Len(pattern)) :
        \A i \in 1..Len(pattern) : message[k + i] = pattern[i]

-----------------------------------------------------------------------------
(* C13: a debt stays owed                                                  *)

\* C13: in every create_period, each listed holder is charged, as
\* carry_forward_in, the positive carry_forward_out of that holder's latest
\* earlier allocation, also when the holder is not on an intermediate roster
\* or a calendar month in between has no stored period
C13_DebtStaysOwed ==
    (caller = "create_period" /\ HasRun("payout_raw")) =>
        \A i \in 1..Len(holders) :
            DictGet(carry_forward_in, holders[i].holder_name, 0)
                = Owed(holders[i].holder_name)

-----------------------------------------------------------------------------
(* C14: carry-forward in of a created period                               *)

\* carry_forward_out of the same name in the stored period just before the
\* requested month, 0 without such an allocation or such a period
FromPreceding(n) ==
    LET before == { p \in monthly_periods :
                      MonthIndex(p) = MonthIndex(requested) - 1 }
    IN  IF before = {} THEN 0
        ELSE LET prior == CHOOSE p \in before : TRUE
             IN  IF n \in HolderNames(RowsOf(prior))
                 THEN LastHolder(RowsOf(prior), n).carry_forward_out
                 ELSE 0

\* C14: a create_period whose calculation has built the allocations stores
\* the period (Y, M), and each stored allocation's carry_forward_in is the
\* carry_forward_out of the same holder_name in the stored period of the
\* preceding calendar month, 0 when there is no such allocation or period
C14_CreateStoresCarryIn ==
    [][ (create_period_resume /\ HasRun("allocations")) =>
          \E p \in monthly_periods' :
              /\ YearMonthOf(p) = requested
              /\ p.id \in DOMAIN holder_allocations'
              /\ Len(holder_allocations'[p.id]) = Len(holders)
              /\ \A i \in 1..Len(holders) :
                    /\ holder_allocations'[p.id][i].holder_name
                         = holders[i].holder_name
                    /\ holder_allocations'[p.id][i].carry_forward_in
                         = FromPreceding(holders[i].holder_name) ]_vars

-----------------------------------------------------------------------------
(* C15: get_prior_period                                                   *)

QueryMonths == [ year : 2023..2025, month : 1..12 ]

\* C15: get_prior_period(year, month) returns the stored period of the
\* calendar month just before (year, month), December of year - 1 for
\* January, and None when that month is not stored, whatever older periods
\* are stored
C15_PriorIsCalendarPredecessor ==
    \A ym \in QueryMonths :
        LET prior == get_prior_period(ym.year, ym.month)
        IN  /\ prior # None =>
                 /\ TheValue(prior) \in monthly_periods
                 /\ MonthIndex(TheValue(prior)) = MonthIndex(ym) - 1
            /\ prior = None =>
                 \A p \in monthly_periods :
                     MonthIndex(p) # MonthIndex(ym) - 1

\* December 2023 is stored and January 2024 is not: January's prior period
\* is found across the year boundary, February's is None
C15_Witness ==
    /\ get_prior_period(2024, 1) # None
    /\ TheValue(get_prior_period(2024, 1)).year = 2023
    /\ TheValue(get_prior_period(2024, 1)).month = 12
    /\ get_prior_period(2024, 2) = None
    /\ \E p \in monthly_periods : MonthIndex(p) < MonthIndex(YearMonthOf(
                                      [year |-> 2024, month |-> 2])) - 1

-----------------------------------------------------------------------------
(* C16: (year, month) identifies at most one stored period                 *)

\* C16: no two stored periods have the same (year, month)
C16_YearMonthUnique ==
    \A p, q \in monthly_periods :
        (p.year = q.year /\ p.month = q.month) => p = q

\* an update_period is over whose body names the (year, month) of another
\* stored period than the one it was called for
C16_Witness ==
    /\ caller = "none"
    /\ requested \in YearMonths
    /\ service_error.type # NoError
    /\ YearMonthOf(period_data) # requested
    /\ find_by_year_month(requested.year, requested.month) # None
    /\ find_by_year_month(period_data.year, period_data.month) # None
    /\ Cardinality(monthly_periods) >= 2

-----------------------------------------------------------------------------
(* C17: create_period of a stored (year, month)                            *)

\* C17: a create_period for a (year, month) that is stored raises the
\* ValueError "... already exists" without calling calculate_period, and
\* leaves both tables as they were
C17_DuplicateCreateRaises ==
    [][ (create_period
           /\ find_by_year_month(period_data'.year, period_data'.month)
                # None) =>
          /\ service_error' =
                AlreadyExists(period_data'.year, period_data'.month)
          /\ caller' = "none"
          /\ pc' = "idle"
          /\ monthly_periods' = monthly_periods
          /\ holder_allocations' = holder_allocations ]_vars

C17_Witness ==
    /\ caller = "none"
    /\ service_error = AlreadyExists(requested.year, requested.month)
    /\ find_by_year_month(requested.year, requested.month) # None
    /\ RowsOf(TheValue(find_by_year_month(requested.year, requested.month)))
         # << >>

-----------------------------------------------------------------------------
(* C18: update_period of a (year, month) that is not stored                *)

\* C18: an update_period for a (year, month) that is not stored raises a
\* ValueError whose message matches "Period not found" and leaves both
\* tables as they were
C18_UpdateOfMissingRaises ==
    [][ (update_period
           /\ find_by_year_month(requested'.year, requested'.month) = None) =>
          /\ service_error'.type = "ValueError"
          /\ Matches(<< "Period", "not", "found" >>, service_error'.message)
          /\ monthly_periods' = monthly_periods
          /\ holder_allocations' = holder_allocations ]_vars

-----------------------------------------------------------------------------
(* C19: what update_period replaces                                        *)

\* C19: an update_period whose calculation has built the allocations, and
\* whose body does not name another stored period's (year, month), succeeds:
\* the period keeps its id, its stored allocations are exactly those computed
\* from the new holder list, and the allocations of the other periods are
\* unchanged
C19_UpdateReplacesAllocations ==
    [][ (update_period_resume /\ HasRun("allocations")
           /\ ~ViolatesUqYearMonth(
                 TheValue(find_by_year_month(requested.year,
                                             requested.month)).id,
                 period_data.year, period_data.month)) =>
          LET id == TheValue(find_by_year_month(requested.year,
                                                requested.month)).id
          IN  /\ service_error' = NoServiceError
              /\ \E p \in monthly_periods' :
                    p.id = id /\ YearMonthOf(p) = YearMonthOf(period_data)
              /\ DOMAIN holder_allocations' = DOMAIN holder_allocations
              /\ holder_allocations'[id] = AllocationEntities(allocations)
              /\ \A other \in DOMAIN holder_allocations \ {id} :
                    holder_allocations'[other] = holder_allocations[other]
      ]_vars

-----------------------------------------------------------------------------
(* C21: the arguments of calculate_period                                  *)

\* C21: no step of calculate_period changes the period input, a holder
\* entry, the order of the holder list or the caller's prior carry-forward
\* map
C21_InputsUnchanged ==
    [][ caller = "test" =>
          /\ period_data' = period_data
          /\ holders' = holders
          /\ prior_carry_forwards' = prior_carry_forwards ]_vars

\* a call is over in which a prior map was given and a rounding adjustment
\* was applied
C21_Witness ==
    /\ caller = "test"
    /\ CallOver
    /\ prior_carry_forwards # None
    /\ TheValue(prior_carry_forwards) # EmptyDict
    /\ adjusted_holder_name # NoName
    /\ \E i \in 1..Len(allocations) :
          allocations[i].received_rounding_adjustment

-----------------------------------------------------------------------------
(* C22: payouts against the pool                                           *)

NonNegativePrior ==
    \A n \in DOMAIN load_carry_forwards(prior_carry_forwards) :
        load_carry_forwards(prior_carry_forwards)[n] >= 0

ExactNetPayoutSum == ExactSum(allocations, NetPayout, 1)

\* C22: for holders with unique names, adjusted_pool >= 0 and no negative
\* prior carry-forward amount,
\* the net payouts of the allocations sum to at most adjusted_pool
C22_PayoutsWithinPool ==
    (HasRun("allocations") /\ UniqueNames(holders) /\ adjusted_pool >= 0
        /\ NonNegativePrior) =>
        ExactNetPayoutSum <= adjusted_pool

-----------------------------------------------------------------------------
(* C29: what the zero floor keeps                                          *)

\* C29: for every holder of a list with unique names, before rounding,
\* payout - carry_forward_out is gross_allocation - personal_charges -
\* carry_forward_in, carry_forward_out is not negative, and payout and
\* carry_forward_out are not both different from 0
C29_DeficitKept ==
    (HasRun("zero_floor") /\ UniqueNames(holders)) =>
        \A i \in 1..Len(holders) :
            LET n == holders[i].holder_name
            IN  /\ payouts[n] - carry_forward_out[n] =
                     DSub(DSub(gross_allocations[n],
                               holders[i].personal_charges),
                          DictGet(carry_forward_in, n, 0))
                /\ carry_forward_out[n] >= 0
                /\ payouts[n] = 0 \/ carry_forward_out[n] = 0

\* one holder is paid nothing and carries a deficit that includes an amount
\* carried in, another is paid and carries nothing
C29_Witness ==
    /\ HasRun("zero_floor") /\ UniqueNames(holders)
    /\ \E i, j \in 1..Len(holders) :
          /\ payouts[holders[i].holder_name] = 0
          /\ carry_forward_out[holders[i].holder_name]
               > DictGet(carry_forward_in, holders[i].holder_name, 0)
          /\ DictGet(carry_forward_in, holders[i].holder_name, 0) > 0
          /\ payouts[holders[j].holder_name] > 0
          /\ carry_forward_out[holders[j].holder_name] = 0

-----------------------------------------------------------------------------
(* C23: a debt that grows                                                  *)

\* the holder's share of the period's net income
NetIncomeShare(i) ==
    DDivInt(DMulInt(period_data.net_income_qb, holders[i].shares),
            total_shares)

-----------------------------------------------------------------------------
(* HolderService: the table holders and the calls that write it            *)

MaxNameLength == 255    \* if len(name) > 255

RECURSIVE Repeat(_, _)
Repeat(text, n) ==
    IF n = 0 THEN ""
    ELSE IF n % 2 = 1 THEN text \o Repeat(text, n - 1)
    ELSE LET half == Repeat(text, n \div 2) IN half \o half

RECURSIVE LStrip(_)
LStrip(text) ==
    IF Len(text) > 0 /\ SubSeq(text, 1, 1) = " "
    THEN LStrip(SubSeq(text, 2, Len(text)))
    ELSE text

RECURSIVE RStrip(_)
RStrip(text) ==
    IF Len(text) > 0 /\ SubSeq(text, Len(text), Len(text)) = " "
    THEN RStrip(SubSeq(text, 1, Len(text) - 1))
    ELSE text

\* str.strip(), the blank being the one whitespace character of the inputs
strip(text) == RStrip(LStrip(text))

\* HolderRepository.find_by_id
find_by_id(holder_id) ==
    LET found == { h \in holder_rows : h.id = holder_id }
    IN  IF found = {} THEN None ELSE Some(CHOOSE h \in found : TRUE)

\* mutant: the lookup leaves deactivated holders out
find_by_name_ActiveOnly(name) ==
    LET found == { h \in holder_rows : h.name = name /\ h.is_active }
    IN  IF found = {} THEN None
        ELSE Some(CHOOSE h \in found : \A g \in found : h.id <= g.id)

\* HolderRepository.find_by_name: filter(Holder.name == name).first()
find_by_name(name) ==
    LET found == { h \in holder_rows : h.name = name }
    IN  IF found = {} THEN None
        ELSE Some(CHOOSE h \in found : \A g \in found : h.id <= g.id)

\* Holder.name is unique=True: would a row of this name written under id
\* collide with another row
ViolatesUniqueName(id, name) ==
    \E h \in holder_rows : h.id # id /\ h.name = name

\* autoincrement primary key of holders; HolderService deletes no row
NextHolderId ==
    IF holder_rows = {} THEN 1
    ELSE 1 + (CHOOSE i \in { h.id : h \in holder_rows } :
                 \A h \in holder_rows : h.id <= i)

\* the mapped attributes of the class HolderAllocation
HolderAllocationAttributes ==
    { "id", "period_id", "holder_name", "shares", "personal_charges",
      "carry_forward_in", "gross_allocation", "net_payout",
      "carry_forward_out", "received_rounding_adjustment", "period" }

EmptyName ==
    [ type |-> "ValueError",
      message |-> << "Holder", "name", "cannot", "be", "empty" >> ]

NameTooLong ==
    [ type |-> "ValueError",
      message |-> << "Holder", "name", "must", "be", "255", "characters",
                     "or", "less" >> ]

HolderExists(name) ==
    [ type |-> "ValueError",
      message |-> << "Holder", "with", "name", name, "already", "exists" >> ]

HolderNotFound(holder_id) ==
    [ type |-> "ValueError",
      message |-> << "Holder", "with", "id", ToString(holder_id), "not",
                     "found" >> ]

NonPositiveShares ==
    [ type |-> "ValueError",
      message |-> << "Default", "shares", "must", "be", "greater", "than",
                     "zero" >> ]

NoHolderIdAttribute ==
    [ type |-> "AttributeError",
      message |-> << "type", "object", "HolderAllocation", "has", "no",
                     "attribute", "holder_id" >> ]

\* what a call leaves behind: the exception, the table holders, the id of the
\* Holder returned
Outcome(error, rows, returned) ==
    [ error |-> error, rows |-> rows, returned |-> returned ]

\* HolderService.create_holder
CreateHolder(raw_name, default_shares) ==
    LET name == strip(raw_name)
    IN  IF name = "" THEN Outcome(EmptyName, holder_rows, 0)
        ELSE IF Len(name) > MaxNameLength
        THEN Outcome(NameTooLong, holder_rows, 0)
        ELSE IF find_by_name(name) # None
        THEN Outcome(HolderExists(name), holder_rows, 0)
        ELSE IF default_shares # None /\ TheValue(default_shares) <= 0
        THEN Outcome(NonPositiveShares, holder_rows, 0)
        ELSE IF ViolatesUniqueName(NextHolderId, name)
        THEN Outcome(IntegrityError, holder_rows, 0)
        ELSE Outcome(NoServiceError,
                     holder_rows \cup
                        { [ id |-> NextHolderId, name |-> name,
                            default_shares |-> default_shares,
                            is_active |-> TRUE ] },
                     NextHolderId)

\* HolderService.get_or_create_holder
GetOrCreateHolder(raw_name, default_shares) ==
    IF find_by_name(raw_name) # None
    THEN Outcome(NoServiceError, holder_rows, TheValue(find_by_name(raw_name)).id)
    ELSE CreateHolder(raw_name, default_shares)

\* the row of holder with one attribute assigned
WithName(holder, name) == [holder EXCEPT !.name = name]
WithShares(holder, default_shares) ==
    [holder EXCEPT !.default_shares = default_shares]

\* query(HolderAllocation).filter(HolderAllocation.holder_id == holder_id)
\*     .update({"holder_name": new_name})
CascadedRows(rows, holder_id, new_name) ==
    [i \in DOMAIN rows |->
        IF "holder_id" \in DOMAIN rows[i] /\ rows[i].holder_id = holder_id
        THEN [rows[i] EXCEPT !.holder_name = new_name]
        ELSE rows[i]]

Cascaded(holder_id, new_name) ==
    [id \in DOMAIN holder_allocations |->
        CascadedRows(holder_allocations[id], holder_id, new_name)]

\* the arguments of the calls
HolderNameArguments ==
    { "A", "B", " A", "B ", "", " ", Repeat("x", MaxNameLength + 1) }
DefaultSharesArguments == { None, Some(0), Some(2) }
HolderIdArguments == 1..(MaxHolderId + 1)

\* a period and its allocations as they are stored when the holders are set up
HolderRoster == << RowPaid("A", Cent), RowPaid("B", Cent) >>

InitHolders ==
    /\ monthly_periods =
          { StoredPeriod(1, [year |-> 2024, month |-> 1], HolderRoster) }
    /\ holder_allocations = [id \in {1} |-> HolderRoster]
    /\ caller = "none"
    /\ requested = NoYearMonth
    /\ service_error = NoServiceError
    /\ period_data \in { pd \in ServicePeriodInputs :
                            pd.year = 2023 /\ pd.month = 12 }
    /\ holders = << >>
    /\ prior_carry_forwards = None
    /\ AtRest
    /\ NoHolders

period_service == << monthly_periods, caller, requested, service_error,
                    concurrent >>

create_holder ==
    /\ \E raw_name \in HolderNameArguments,
          default_shares \in DefaultSharesArguments :
          LET outcome == CreateHolder(raw_name, default_shares)
          IN  /\ outcome.returned <= MaxHolderId
              /\ holder_call' = [ op |-> "create_holder", holder_id |-> 0,
                                  name |-> Some(raw_name),
                                  default_shares |-> default_shares ]
              /\ holder_rows' = outcome.rows
              /\ holder_error' = outcome.error
              /\ holder_returned' = outcome.returned
    /\ UNCHANGED << period_service, holder_allocations, inputs, locals >>

get_or_create_holder ==
    /\ \E raw_name \in HolderNameArguments,
          default_shares \in DefaultSharesArguments :
          LET outcome == GetOrCreateHolder(raw_name, default_shares)
          IN  /\ outcome.returned <= MaxHolderId
              /\ holder_call' = [ op |-> "get_or_create_holder",
                                  holder_id |-> 0, name |-> Some(raw_name),
                                  default_shares |-> default_shares ]
              /\ holder_rows' = outcome.rows
              /\ holder_error' = outcome.error
              /\ holder_returned' = outcome.returned
    /\ UNCHANGED << period_service, holder_allocations, inputs, locals >>

\* HolderService.update_holder.  An exception that leaves the call after
\* holder.name was assigned finds the assignment pending in the session: it
\* is flushed by the next query of a caller that keeps the session, and lost
\* when the session is closed.
update_holder ==
    /\ \E holder_id \in HolderIdArguments,
          raw_name \in { None } \cup { Some(n) : n \in HolderNameArguments },
          default_shares \in DefaultSharesArguments,
          flushed \in BOOLEAN :
          /\ holder_call' = [ op |-> "update_holder", holder_id |-> holder_id,
                              name |-> raw_name,
                              default_shares |-> default_shares ]
          /\ IF find_by_id(holder_id) = None
             THEN /\ holder_error' = HolderNotFound(holder_id)
                  /\ holder_returned' = 0
                  /\ UNCHANGED << holder_rows, holder_allocations >>
             ELSE
             LET holder == TheValue(find_by_id(holder_id))
                 name == IF raw_name = None THEN holder.name
                         ELSE strip(TheValue(raw_name))
                 named == WithName(holder, name)
                 rejected(error) ==
                     /\ holder_error' = error
                     /\ holder_returned' = 0
                     /\ UNCHANGED << holder_rows, holder_allocations >>
             IN  IF raw_name # None /\ name = ""
                 THEN rejected(EmptyName)
                 ELSE IF raw_name # None /\ Len(name) > MaxNameLength
                 THEN rejected(NameTooLong)
                 ELSE IF /\ raw_name # None
                         /\ find_by_name(name) # None
                         /\ TheValue(find_by_name(name)).id # holder_id
                 THEN rejected(HolderExists(name))
                 ELSE IF /\ raw_name # None
                         /\ "holder_id" \notin HolderAllocationAttributes
                 THEN /\ holder_error' = NoHolderIdAttribute
                      /\ holder_returned' = 0
                      /\ holder_rows' =
                            IF flushed
                            THEN (holder_rows \ {holder}) \cup {named}
                            ELSE holder_rows
                      /\ UNCHANGED holder_allocations
                 ELSE IF default_shares # None /\ TheValue(default_shares) <= 0
                 THEN /\ holder_error' = NonPositiveShares
                      /\ holder_returned' = 0
                      /\ holder_rows' = (holder_rows \ {holder}) \cup {named}
                      /\ holder_allocations' =
                            IF raw_name # None THEN Cascaded(holder_id, name)
                            ELSE holder_allocations
                 ELSE /\ holder_error' = NoServiceError
                      /\ holder_returned' = holder_id
                      /\ holder_rows' =
                            (holder_rows \ {holder}) \cup
                              { IF default_shares # None
                                THEN WithShares(named, default_shares)
                                ELSE named }
                      /\ holder_allocations' =
                            IF raw_name # None THEN Cascaded(holder_id, name)
                            ELSE holder_allocations
    /\ UNCHANGED << period_service, inputs, locals >>

\* HolderService.deactivate_holder
deactivate_holder ==
    /\ \E holder_id \in HolderIdArguments :
          /\ holder_call' = [ op |-> "deactivate_holder",
                              holder_id |-> holder_id, name |-> None,
                              default_shares |-> None ]
          /\ IF find_by_id(holder_id) = None
             THEN /\ holder_error' = HolderNotFound(holder_id)
                  /\ holder_returned' = 0
                  /\ UNCHANGED holder_rows
             ELSE /\ holder_error' = NoServiceError
                  /\ holder_returned' = holder_id
                  /\ holder_rows' =
                        (holder_rows \ { TheValue(find_by_id(holder_id)) })
                          \cup { [TheValue(find_by_id(holder_id))
                                     EXCEPT !.is_active = FALSE] }
    /\ UNCHANGED << period_service, holder_allocations, inputs, locals >>

NextHolders ==
    \/ create_holder
    \/ get_or_create_holder
    \/ update_holder
    \/ deactivate_holder

SpecHolders == InitHolders /\ [][NextHolders]_vars

-----------------------------------------------------------------------------
(* Properties of HolderService                                             *)

HolderNamesUnique ==
    \A a, b \in holder_rows : (a.name = b.name \/ a.id = b.id) => a = b

\* the name the call made in this step passes, "" for none
CalledName == IF holder_call'.name = None THEN ""
              ELSE TheValue(holder_call'.name)

\* before the step, a holder other than holder_id has the stripped name
TakenByAnother(raw_name, holder_id) ==
    \E h \in holder_rows : h.name = strip(raw_name) /\ h.id # holder_id

\* the step is a create_holder or a rename to a name another holder has
DuplicateNameCall ==
    \/ /\ holder_call'.op = "create_holder"
       /\ TakenByAnother(CalledName, 0)
    \/ /\ holder_call'.op = "update_holder"
       /\ holder_call'.name # None
       /\ find_by_id(holder_call'.holder_id) # None
       /\ TakenByAnother(CalledName, holder_call'.holder_id)

SaysAlreadyExists(error) ==
    /\ error.type = "ValueError"
    /\ Len(error.message) >= 2
    /\ SubSeq(error.message, Len(error.message) - 1, Len(error.message))
          = << "already", "exists" >>

\* C24: no two holders, active or deactivated, have the same name, and a
\* create_holder or a rename whose stripped name another holder already has
\* raises a ValueError saying 'already exists' and changes neither the
\* holders nor the allocations.
C24_HolderNamesUnique ==
    [][ /\ HolderNamesUnique'
        /\ DuplicateNameCall =>
              /\ SaysAlreadyExists(holder_error')
              /\ holder_rows' = holder_rows
              /\ holder_allocations' = holder_allocations ]_vars

\* create_holder(" A") has just been refused because a deactivated holder is
\* named "A"
C24_Witness ==
    /\ holder_call.op = "create_holder"
    /\ holder_call.name = Some(" A")
    /\ holder_error = HolderExists("A")
    /\ \E h \in holder_rows : h.name = "A" /\ ~h.is_active
    /\ \E h \in holder_rows : h.name = "B"

\* create_holder accepts the arguments when no holder has the name yet
Acceptable(raw_name, default_shares) ==
    /\ strip(raw_name) # ""
    /\ Len(strip(raw_name)) <= MaxNameLength
    /\ default_shares = None \/ TheValue(default_shares) > 0

\* C25: get_or_create_holder, called with a name that a holder has, or that
\* create_holder accepts because no holder has it, or for the second time in
\* a row with the same arguments, a name with leading or trailing blanks
\* included, does not raise; it returns the holder of that name, and the
\* second call returns the same id and leaves the holders as they were.
C25_GetOrCreateIdempotent ==
    [][ ( /\ holder_call'.op = "get_or_create_holder"
          /\ Acceptable(CalledName, holder_call'.default_shares)
          /\ \/ find_by_name(CalledName) # None
             \/ find_by_name(strip(CalledName)) = None
             \/ holder_call = holder_call' /\ holder_error = NoServiceError )
        => /\ holder_error' = NoServiceError
           /\ \E h \in holder_rows' :
                 h.id = holder_returned' /\ h.name = strip(CalledName)
           /\ ( holder_call = holder_call' /\ holder_error = NoServiceError )
                 => ( holder_returned' = holder_returned
                      /\ holder_rows' = holder_rows ) ]_vars

\* the step is an update_holder of a stored holder with a name that is valid
\* and free and default_shares that are valid
ValidRename ==
    /\ holder_call'.op = "update_holder"
    /\ holder_call'.name # None
    /\ find_by_id(holder_call'.holder_id) # None
    /\ Acceptable(CalledName, holder_call'.default_shares)
    /\ ~TakenByAnother(CalledName, holder_call'.holder_id)

\* the allocations of the holder named old_name carry new_name
RenamedRows(rows, old_name, new_name) ==
    [i \in DOMAIN rows |->
        IF rows[i].holder_name = old_name
        THEN [rows[i] EXCEPT !.holder_name = new_name]
        ELSE rows[i]]

\* C26: a rename through update_holder that is valid succeeds; afterwards the
\* holder has the stripped new name, each of its stored allocations carries
\* that name, and the allocations of the other holders are as before.
C26_RenameCascades ==
    [][ ValidRename =>
          LET old_name == TheValue(find_by_id(holder_call'.holder_id)).name
              new_name == strip(CalledName)
          IN  /\ holder_error' = NoServiceError
              /\ \E h \in holder_rows' :
                    h.id = holder_call'.holder_id /\ h.name = new_name
              /\ holder_allocations' =
                    [id \in DOMAIN holder_allocations |->
                        RenamedRows(holder_allocations[id], old_name,
                                    new_name)] ]_vars

\* the step is an update_holder whose arguments the validation refuses
RefusedUpdate ==
    /\ holder_call'.op = "update_holder"
    /\ \/ find_by_id(holder_call'.holder_id) = None
       \/ /\ holder_call'.name # None
          /\ \/ strip(CalledName) = ""
             \/ Len(strip(CalledName)) > MaxNameLength
             \/ TakenByAnother(CalledName, holder_call'.holder_id)
       \/ /\ holder_call'.default_shares # None
          /\ TheValue(holder_call'.default_shares) <= 0

\* C28: an update_holder whose arguments are refused, a valid new name passed
\* with non-positive default_shares included, raises a ValueError and leaves
\* the holders and the holder names of the allocations as they were.
C28_FailedUpdateChangesNothing ==
    [][ RefusedUpdate =>
          /\ holder_error'.type = "ValueError"
          /\ holder_rows' = holder_rows
          /\ holder_allocations' = holder_allocations ]_vars

-----------------------------------------------------------------------------
(* C27: carry-forward in of the stored successors                          *)

\* carry_forward_out of the name in rows, 0 when the name is not listed
CarriedOut(rows, n) ==
    IF n \in HolderNames(rows) THEN LastHolder(rows, n).carry_forward_out
    ELSE 0

\* the step ends a create_period, or an update_period whose body does not
\* name another stored period's month, whose calculation has built the
\* allocations
WritingCallEnds ==
    /\ HasRun("allocations")
    /\ \/ create_period_resume
       \/ /\ update_period_resume
          /\ ~ViolatesUqYearMonth(
                 TheValue(find_by_year_month(requested.year,
                                             requested.month)).id,
                 period_data.year, period_data.month)

\* C27: a create_period or update_period whose calculation has built the
\* allocations stores them for the period's month, and afterwards every
\* allocation of the stored period of the following calendar month has as
\* carry_forward_in the carry_forward_out that the period just written has
\* for the same holder_name, 0 if it has none: a period created after its
\* successor or updated carries over into the successor.
C27_SuccessorFollowsPredecessor ==
    [][ WritingCallEnds =>
          /\ service_error' = NoServiceError
          /\ \E p \in monthly_periods' :
                /\ YearMonthOf(p) = YearMonthOf(period_data)
                /\ holder_allocations'[p.id] = AllocationEntities(allocations)
                /\ \A q \in monthly_periods' :
                      MonthIndex(q) = MonthIndex(p) + 1 =>
                         \A i \in 1..Len(holder_allocations'[q.id]) :
                            holder_allocations'[q.id][i].carry_forward_in
                               = CarriedOut(holder_allocations'[p.id],
                                            holder_allocations'[q.id][i]
                                                .holder_name) ]_vars

-----------------------------------------------------------------------------
(* C30: two create_period calls for one month                              *)

\* the step ends the second of two create_period calls for the same month
\* that both passed the lookup before either one saved
SecondCallEnds ==
    /\ create_period_resume
    /\ concurrent.phase = "running"
    /\ concurrent.first_requested = requested

\* C30: when the second of two interleaved create_period calls for the same
\* (year, month) ends, at most one period of that month is stored, not both
\* calls have ended without an error, a call that ends in an error leaves
\* both tables as they were, and a call that ends without one has stored the
\* allocations of its own calculation under the one period of that month.
C30_InterleavedCreate ==
    [][ SecondCallEnds =>
          LET stored == { p \in monthly_periods' : YearMonthOf(p) = requested }
          IN  /\ Cardinality(stored) <= 1
              /\ { p.id : p \in monthly_periods' }
                    = DOMAIN holder_allocations'
              /\ ~( concurrent.first_error = NoServiceError
                    /\ service_error' = NoServiceError )
              /\ service_error' # NoServiceError =>
                    ( monthly_periods' = monthly_periods
                      /\ holder_allocations' = holder_allocations )
              /\ service_error' = NoServiceError =>
                    \E p \in stored :
                       holder_allocations'[p.id]
                          = AllocationEntities(allocations) ]_vars

\* both calls, made for the same month with holders, have passed the lookup
\* and have ended
C30_Witness ==
    /\ concurrent.phase = "over"
    /\ caller = "none"
    /\ concurrent.first_requested = requested
    /\ Len(holders) > 0
    /\ concurrent.first_error # NoServiceError
    /\ concurrent.second_error # NoServiceError
    /\ concurrent.second_error = service_error
    /\ \A p \in monthly_periods : YearMonthOf(p) # requested

====
